---- MODULE Spec2Model ----
(***************************************************************************)
(* Ranked-choice tabulation of src/rcv.py: the Ballot model with its       *)
(* cleaned_votes normalisation, run_irv round by round, the pairwise       *)
(* preference matrix, run_condorcet, the Schulze strongest paths and the   *)
(* positional tabulators (Borda, FPTP, approval).                          *)
(*                                                                         *)
(* Candidates are the integers 1..NumCands.  Python's None is None (0, the *)
(* only falsy slot value) and the overvote marker 'OVER' is OVER (-1).     *)
(***************************************************************************)
EXTENDS Integers, Sequences, FiniteSets, TLC

\* ---------------------------------------------------------------- bounds
NumCands == 3
MaxBallots == 2
MaxBallotsSchulze == 3

\* ------------------------------------------------------- program constants
Ranks == 3
None == 0
OVER == -1
BordaTop == 3
ApprovalCutoff == 3

Cands == 1..NumCands
Slot == Cands \cup {None, OVER}

VARIABLES
    ballots,     \* the Ballot objects: ballots[i] is Ballot.votes, its rank slots
    verbose,     \* run_irv's verbose argument of the current or last run
    pc,          \* run_irv: "idle" | "running" | "returned" | "raised"
    votes,       \* run_irv's local votes: one working list per ballot
    round,       \* run_irv's round counter i
    eliminated,  \* run_irv's local eliminated (Unbound until first assigned)
    elims,       \* the candidates run_irv has removed so far, in order
    ret,         \* run_irv's return value
    exc,         \* the exception run_irv raised ("" when none)
    last         \* the last call of another function: [fn, val, exc]

vars == <<ballots, verbose, pc, votes, round, eliminated, elims, ret, exc, last>>

Unbound == "unbound"

\* ------------------------------------------------------------ sequences
\* f itself, held as an explicit table (a dict or list built once) instead of
\* a rule re-evaluated at every lookup
Table(f) == f @@ <<>>

Range(s) == {s[k] : k \in 1..Len(s)}

Contains(s, x) == \E k \in 1..Len(s) : s[k] = x

\* list.remove(x) repeated while x is in the list: every occurrence goes, the
\* others keep their order
RECURSIVE RemoveAll(_, _)
RemoveAll(s, x) ==
    IF s = <<>> THEN <<>>
    ELSE IF Head(s) = x THEN RemoveAll(Tail(s), x)
    ELSE <<Head(s)>> \o RemoveAll(Tail(s), x)

\* ------------------------------------------------ Ballot.cleaned_votes
RECURSIVE CleanLoop(_, _, _)
CleanLoop(slots, k, acc) ==
    IF k > Len(slots) THEN acc
    ELSE LET v == slots[k] IN
         IF v = OVER THEN acc
         ELSE IF v # None /\ ~Contains(acc, v)
              THEN CleanLoop(slots, k + 1, Append(acc, v))
              ELSE CleanLoop(slots, k + 1, acc)

\* faulty variant: the overvote marker is skipped instead of ending the scan
RECURSIVE CleanLoopSkipOver(_, _, _)
CleanLoopSkipOver(slots, k, acc) ==
    IF k > Len(slots) THEN acc
    ELSE LET v == slots[k] IN
         IF v # OVER /\ v # None /\ ~Contains(acc, v)
         THEN CleanLoopSkipOver(slots, k + 1, Append(acc, v))
         ELSE CleanLoopSkipOver(slots, k + 1, acc)

cleaned_votes_skip_over(slots) == CleanLoopSkipOver(slots, 1, <<>>)

cleaned_votes(slots) == CleanLoop(slots, 1, <<>>)

\* ------------------------------------------------------------ ballot sets
RawBallots == [1..Ranks -> Slot]

\* a Ballot as the parser fills it from a ranking: slot k holds the k-th
\* choice, the slots past the ranking stay None
Pad(s) == [k \in 1..Ranks |-> IF k <= Len(s) THEN s[k] ELSE None]

CleanSeqs == {cleaned_votes(b) : b \in RawBallots}

PaddedBallots == {Pad(s) : s \in CleanSeqs}

\* ------------------------------------------------ collections.Counter
\* the distinct values of s in order of first occurrence (a dict's key order)
RECURSIVE FirstSeen(_, _)
FirstSeen(s, acc) ==
    IF s = <<>> THEN acc
    ELSE FirstSeen(Tail(s), IF Contains(acc, Head(s)) THEN acc ELSE Append(acc, Head(s)))

Occurrences(s, x) == Cardinality({k \in 1..Len(s) : s[k] = x})

\* Counter(s).items(): <<value, count>> pairs in insertion order
CounterItems(s) ==
    LET keys == FirstSeen(s, <<>>)
    IN  [k \in 1..Len(keys) |-> <<keys[k], Occurrences(s, keys[k])>>]

\* sorted(items, key=count, reverse=True): stable, so equal counts keep their
\* earlier order
RECURSIVE SortDesc(_)
SortDesc(items) ==
    IF items = <<>> THEN <<>>
    ELSE LET best == CHOOSE k \in 1..Len(items) :
                        /\ \A j \in 1..Len(items) : items[j][2] <= items[k][2]
                        /\ \A j \in 1..(k - 1) : items[j][2] < items[k][2]
             rest == [j \in 1..(Len(items) - 1) |->
                        IF j < best THEN items[j] ELSE items[j + 1]]
         IN  <<items[best]>> \o SortDesc(rest)

most_common(s) == SortDesc(CounterItems(s))

\* --------------------------------------------------------------- run_irv
\* v[0] for v in votes if v
RECURSIVE FirstChoices(_)
FirstChoices(vs) ==
    IF vs = <<>> THEN <<>>
    ELSE IF Head(vs) = <<>> THEN FirstChoices(Tail(vs))
    ELSE <<Head(Head(vs))>> \o FirstChoices(Tail(vs))

Nonexhausted(vs) == Cardinality({k \in 1..Len(vs) : vs[k] # <<>>})

Totals(vs) == most_common(FirstChoices(vs))

\* faulty variant: a tie at exactly half counts as a majority
HasMajorityOrHalf(v, nonexhausted) == 2 * v >= nonexhausted

\* v > nonexhausted / 2, with Python's true division
HasMajority(v, nonexhausted) == 2 * v > nonexhausted

\* faulty variant: the majority is taken of all ballots, exhausted ones included
MajorityBaseAll(vs) == Len(vs)

\* the count the leader is compared against: the nonexhausted ballots
MajorityBase(vs) == Nonexhausted(vs)

\* while eliminated in v: v.remove(eliminated)
Eliminate(v, e) == RemoveAll(v, e)

\* faulty variant: cleaned_votes hands out the ballot's own list, so removing from the
\* working list removes from Ballot.votes
StoredAfterEliminateAliased(slots, e) ==
    [k \in 1..Ranks |-> IF slots[k] = e THEN None ELSE slots[k]]

\* Ballot.votes after the elimination loop: the loop works on the lists
\* cleaned_votes built, never on Ballot.votes
StoredAfterEliminate(slots, e) == slots

IrvCall ==
    /\ pc # "running"
    /\ \E vb \in BOOLEAN : verbose' = vb
    /\ votes' = [k \in 1..Len(ballots) |-> cleaned_votes(ballots[k])]
    /\ round' = 1
    /\ eliminated' = Unbound
    /\ elims' = <<>>
    /\ ret' = None
    /\ exc' = ""
    /\ pc' = "running"
    /\ UNCHANGED <<ballots, last>>

IrvRaise(e) ==
    /\ pc' = "raised"
    /\ exc' = e
    /\ UNCHANGED <<ballots, verbose, votes, round, eliminated, elims, ret, last>>

IrvReturn(c) ==
    /\ pc' = "returned"
    /\ ret' = c
    /\ UNCHANGED <<ballots, verbose, votes, round, eliminated, elims, exc, last>>

IrvEliminate(e) ==
    /\ eliminated' = e
    /\ elims' = Append(elims, e)
    /\ votes' = [k \in 1..Len(votes) |-> Eliminate(votes[k], e)]
    /\ ballots' = [k \in 1..Len(ballots) |-> StoredAfterEliminate(ballots[k], e)]
    /\ round' = round + 1
    /\ UNCHANGED <<verbose, pc, ret, exc, last>>

\* one pass of the for-loop body of run_irv.  Without verbose nothing assigns
\* eliminated before the removal loop reads it, and votes is not empty there
\* (totals was not), so the loop's first test raises
IrvRound ==
    /\ pc = "running"
    /\ LET totals == Totals(votes) IN
       IF totals = <<>>
       THEN IrvRaise("IndexError")
       ELSE IF HasMajority(totals[1][2], MajorityBase(votes))
       THEN IrvReturn(totals[1][1])
       ELSE IF verbose
       THEN IrvEliminate(totals[Len(totals)][1])
       ELSE IrvRaise("UnboundLocalError")

\* ------------------------------------------------- pairwise_preferences
CleanedAll(bs) == Table([k \in 1..Len(bs) |-> cleaned_votes(bs[k])])

CandidatesOf(vs) == UNION {Range(vs[k]) : k \in 1..Len(vs)}

Pairs(C) == {p \in C \X C : p[1] # p[2]}

\* the increments one ballot v gives prefs[p]: one for each place of p[1] in v
\* with p[2] later in v
LaterIncrements(v, p) ==
    Cardinality({q \in (1..Len(v)) \X (1..Len(v)) :
                    q[1] < q[2] /\ v[q[1]] = p[1] /\ v[q[2]] = p[2]})

\* faulty variant: candidates the ballot does not rank are not counted as beaten
UnrankedIncrementsNone(v, C, p) == 0

\* ... and one for each place of p[1] in v with p[2] in candidates - set(v)
UnrankedIncrements(v, C, p) ==
    Cardinality({i \in 1..Len(v) : v[i] = p[1] /\ p[2] \in (C \ Range(v))})

RECURSIVE TallyPrefs(_, _, _)
TallyPrefs(vs, C, prefs) ==
    IF vs = <<>> THEN prefs
    ELSE TallyPrefs(Tail(vs), C,
            Table([p \in DOMAIN prefs |->
                    prefs[p] + LaterIncrements(Head(vs), p)
                             + UnrankedIncrements(Head(vs), C, p)]))

pairwise_preferences(bs) ==
    LET vs == CleanedAll(bs)
        C == CandidatesOf(vs)
    IN  TallyPrefs(vs, C, Table([p \in Pairs(C) |-> 0]))

\* --------------------------------------------------------- run_condorcet
\* the orders in which iterating a set of candidate names can yield them
Orders(C) ==
    {o \in [1..Cardinality(C) -> C] : \A i, j \in 1..Cardinality(C) : i # j => o[i] # o[j]}

\* {c for c, _ in prefs}
KeyCandidates(prefs) == {p[1] : p \in DOMAIN prefs}

Wins(prefs, c) ==
    Cardinality({d \in KeyCandidates(prefs) : c # d /\ prefs[<<c, d>>] > prefs[<<d, c>>]})

\* for c, w in wins.items(): if w == len(candidates) - 1: return c
RECURSIVE FirstWinner(_, _, _)
FirstWinner(prefs, order, k) ==
    IF k > Len(order) THEN None
    ELSE IF Wins(prefs, order[k]) = Cardinality(KeyCandidates(prefs)) - 1 THEN order[k]
    ELSE FirstWinner(prefs, order, k + 1)

run_condorcet(prefs, order) == FirstWinner(prefs, order, 1)

\* ------------------------------------------------------ _strongest_paths
Min(a, b) == IF a < b THEN a ELSE b

Max(a, b) == IF a > b THEN a ELSE b

InitialPaths(prefs) ==
    Table([p \in DOMAIN prefs |->
            IF prefs[p] > prefs[<<p[2], p[1]>>] THEN prefs[p] ELSE 0])

\* faulty variant: the relaxed strength overwrites the entry instead of raising it
RelaxOverwrite(paths, c, d, e) ==
    [paths EXCEPT ![<<d, e>>] = Min(paths[<<d, c>>], paths[<<c, e>>])]

\* paths[(d, e)] = max(paths[(d, e)], min(paths[(d, c)], paths[(c, e)]))
Relax(paths, c, d, e) ==
    [paths EXCEPT ![<<d, e>>] =
        Max(paths[<<d, e>>], Min(paths[<<d, c>>], paths[<<c, e>>]))]

\* the three nested loops over candidates, in the set's iteration order;
\* every update is made in place
\* for e in candidates, under one c and d; an update that changes nothing
\* leaves the matrix it was given
RECURSIVE PathLoopE(_, _, _, _, _)
PathLoopE(paths, order, c, d, ei) ==
    IF ei > Len(order) THEN paths
    ELSE LET e == order[ei]
             next == IF e # c /\ e # d THEN Table(Relax(paths, c, d, e)) ELSE paths
         IN IF next = paths THEN PathLoopE(paths, order, c, d, ei + 1)
            ELSE PathLoopE(next, order, c, d, ei + 1)

\* for d in candidates, under one c
RECURSIVE PathLoopD(_, _, _, _)
PathLoopD(paths, order, c, di) ==
    IF di > Len(order) THEN paths
    ELSE LET d == order[di]
             next == IF c # d THEN PathLoopE(paths, order, c, d, 1) ELSE paths
         IN PathLoopD(next, order, c, di + 1)

\* for c in candidates
RECURSIVE PathLoop(_, _, _)
PathLoop(paths, order, ci) ==
    IF ci > Len(order) THEN paths
    ELSE PathLoop(PathLoopD(paths, order, order[ci], 1), order, ci + 1)

\* the loops of _strongest_paths over the matrix pairwise_preferences returned
strongest_paths(prefs, order) == PathLoop(InitialPaths(prefs), order, 1)

\* --------------------------------------- run_borda, run_fptp, run_approval
\* count_fn(i) for the 0-based position i
CountFn(kind, i) ==
    CASE kind = "run_borda" -> BordaTop - i
      [] kind = "run_fptp" -> IF i = 0 THEN 1 ELSE 0
      [] kind = "run_approval" -> IF i < ApprovalCutoff THEN 1 ELSE 0

RECURSIVE Flatten(_)
Flatten(vs) == IF vs = <<>> THEN <<>> ELSE Head(vs) \o Flatten(Tail(vs))

\* what one ballot adds to counts[c]
BallotScore(kind, v, c) ==
    LET at == {i \in 1..Len(v) : v[i] = c}
    IN  IF at = {} THEN 0 ELSE CountFn(kind, (CHOOSE i \in at : TRUE) - 1)

RECURSIVE Score(_, _, _)
Score(kind, vs, c) ==
    IF vs = <<>> THEN 0
    ELSE BallotScore(kind, Head(vs), c) + Score(kind, Tail(vs), c)

\* counts.items(): the candidates in the order counts first saw them
CountItems(kind, vs) ==
    LET keys == FirstSeen(Flatten(vs), <<>>)
    IN  [k \in 1..Len(keys) |-> <<keys[k], Score(kind, vs, keys[k])>>]

\* [fn, val, exc] of a positional tabulator: winners[0][0], which raises
\* IndexError when winners is empty
run_borda(kind, bs) ==
    LET winners == SortDesc(CountItems(kind, CleanedAll(bs)))
    IN  IF winners = <<>>
        THEN [fn |-> kind, val |-> None, exc |-> "IndexError"]
        ELSE [fn |-> kind, val |-> winners[1][1], exc |-> ""]

\* ------------------------------------------------------ calls between runs
\* run_irv is synchronous: another function is called before or after a run,
\* never in the middle of one
Returned(fn, val) == [fn |-> fn, val |-> val, exc |-> ""]

CallFrame == UNCHANGED <<ballots, verbose, pc, votes, round, eliminated, elims, ret, exc>>

CleanedVotes ==
    /\ pc # "running"
    /\ \E k \in 1..Len(ballots) :
          last' = Returned("cleaned_votes", cleaned_votes(ballots[k]))
    /\ CallFrame

PairwisePreferences ==
    /\ pc # "running"
    /\ last' = Returned("pairwise_preferences", pairwise_preferences(ballots))
    /\ CallFrame

RunCondorcet ==
    /\ pc # "running"
    /\ \E prefs \in {pairwise_preferences(ballots)} :
       \E order \in Orders(KeyCandidates(prefs)) :
          last' = Returned("run_condorcet", run_condorcet(prefs, order))
    /\ CallFrame

StrongestPaths ==
    /\ pc # "running"
    /\ \E prefs \in {pairwise_preferences(ballots)} :
       \E order \in Orders(KeyCandidates(prefs)) :
          last' = Returned("_strongest_paths", strongest_paths(prefs, order))
    /\ CallFrame

\* run_condorcet(ballots, verbose, _strongest_paths): the candidate set of
\* _strongest_paths and the one of run_condorcet are separate sets, each with
\* an iteration order of its own
RunSchulze ==
    /\ pc # "running"
    /\ \E prefs \in {pairwise_preferences(ballots)} :
       \E paths \in {strongest_paths(prefs, order) : order \in Orders(KeyCandidates(prefs))} :
       \E worder \in Orders(KeyCandidates(paths)) :
          last' = Returned("run_schulze", run_condorcet(paths, worder))
    /\ CallFrame

RunBorda ==
    /\ pc # "running"
    /\ last' = run_borda("run_borda", ballots)
    /\ CallFrame

RunFptp ==
    /\ pc # "running"
    /\ last' = run_borda("run_fptp", ballots)
    /\ CallFrame

RunApproval ==
    /\ pc # "running"
    /\ last' = run_borda("run_approval", ballots)
    /\ CallFrame

\* ---------------------------------------------------------- specifications
NoCall == [fn |-> "none", val |-> None, exc |-> ""]

InitWith(bs) ==
    /\ ballots = bs
    /\ verbose = TRUE
    /\ pc = "idle"
    /\ votes = <<>>
    /\ round = 0
    /\ eliminated = Unbound
    /\ elims = <<>>
    /\ ret = None
    /\ exc = ""
    /\ last = NoCall

\* a list of up to m ballots, as get_ballots returns it
InitUpTo(m) == \E n \in 0..m : \E bs \in [1..n -> PaddedBallots] : InitWith(bs)

\* the whole program
Init == InitUpTo(MaxBallots)

Next ==
    \/ IrvCall
    \/ IrvRound
    \/ PairwisePreferences
    \/ RunCondorcet
    \/ StrongestPaths
    \/ RunSchulze
    \/ RunBorda
    \/ RunFptp
    \/ RunApproval

Spec == Init /\ [][Next]_vars

\* run_irv alone
NextIrv ==
    \/ IrvCall
    \/ IrvRound

SpecIrv == Init /\ [][NextIrv]_vars

\* cleaned_votes on every filling of one ballot's rank slots
InitClean == \E b \in RawBallots : InitWith(<<b>>)

NextClean == CleanedVotes

SpecClean == InitClean /\ [][NextClean]_vars

\* the preference matrix
NextPrefs == PairwisePreferences

SpecPrefs == Init /\ [][NextPrefs]_vars

\* run_condorcet over the preference matrix
NextCondorcet == RunCondorcet

SpecCondorcet == Init /\ [][NextCondorcet]_vars

\* the Schulze strongest paths, on up to MaxBallotsSchulze ballots (a majority
\* cycle takes three)
InitSchulze == InitUpTo(MaxBallotsSchulze)

NextSchulze == StrongestPaths

SpecSchulze == InitSchulze /\ [][NextSchulze]_vars

\* ------------------------------------------------------------- the claims
\* what the claims speak of, stated from the ballots and the working lists
\* directly
HasVotes(bs) == \E k \in 1..Len(bs) : cleaned_votes(bs[k]) # <<>>

Contenders(vs) == UNION {Range(vs[k]) : k \in 1..Len(vs)}

NumCandidates(bs) ==
    Cardinality(UNION {Range(cleaned_votes(bs[k])) : k \in 1..Len(bs)})

Live(vs) == {k \in 1..Len(vs) : vs[k] # <<>>}

FirstCount(vs, c) == Cardinality({k \in Live(vs) : vs[k][1] = c})

StrictMajority(vs, c) == 2 * FirstCount(vs, c) > Cardinality(Live(vs))

\* C1: a verbose run_irv on ballots with some non-empty cleaned sequence
\* returns c in a round exactly when c leads that round with more than half of
\* the round's nonexhausted ballots; a round that does not return had no such
\* candidate
C1_MajorityOfNonexhausted ==
    [][(pc = "running" /\ verbose /\ HasVotes(ballots)) =>
         /\ pc' = "returned" =>
               /\ StrictMajority(votes, ret')
               /\ \A d \in Contenders(votes) : FirstCount(votes, d) <= FirstCount(votes, ret')
         /\ \A c \in Contenders(votes) :
               StrictMajority(votes, c) => (pc' = "returned" /\ ret' = c)]_vars

\* a winner by a majority of the nonexhausted ballots that is no majority of
\* all ballots, after at least one elimination
C1_Witness ==
    /\ pc = "returned" /\ verbose /\ elims # <<>>
    /\ StrictMajority(votes, ret)
    /\ 2 * FirstCount(votes, ret) <= Len(ballots)

\* run_irv with verbose on, run to its end: [pc, ret, exc, elims]
RECURSIVE IrvVerboseOutcome(_, _)
IrvVerboseOutcome(vs, el) ==
    LET totals == Totals(vs) IN
    IF totals = <<>>
    THEN [pc |-> "raised", ret |-> None, exc |-> "IndexError", elims |-> el]
    ELSE IF HasMajority(totals[1][2], MajorityBase(vs))
    THEN [pc |-> "returned", ret |-> totals[1][1], exc |-> "", elims |-> el]
    ELSE LET e == totals[Len(totals)][1] IN
         IrvVerboseOutcome(Table([k \in 1..Len(vs) |-> Eliminate(vs[k], e)]), Append(el, e))

\* C2: a run of run_irv with verbose=False ends as the run with verbose=True
\* on the same ballots does: same winner, same eliminated candidates
C2_TraceHasNoEffect ==
    (pc \in {"returned", "raised"} /\ ~verbose) =>
        [pc |-> pc, ret |-> ret, exc |-> exc, elims |-> elims]
            = IrvVerboseOutcome(CleanedAll(ballots), <<>>)

\* C3 as claimed: a verbose run_irv on ballots with some non-empty cleaned
\* sequence returns a winner after at most numCandidates - 1 rounds
C3_AtMostCandidatesMinusOneRounds ==
    (pc # "idle" /\ verbose /\ HasVotes(ballots)) =>
        /\ pc # "raised"
        /\ pc = "returned" => round <= NumCandidates(ballots) - 1

\* C3 amended: a verbose run_irv on ballots with some non-empty cleaned
\* sequence never raises, is in no round past numCandidates, and returns one
\* of the candidates
C3_AtMostCandidatesRounds ==
    (pc # "idle" /\ verbose /\ HasVotes(ballots)) =>
        /\ pc # "raised"
        /\ round <= NumCandidates(ballots)
        /\ pc = "returned" => ret \in Contenders(CleanedAll(ballots))

\* a run that needed as many rounds as there are candidates, first-choice
\* counts tied on the way
C3_Witness ==
    /\ pc = "returned" /\ verbose
    /\ NumCandidates(ballots) >= 2
    /\ round = NumCandidates(ballots)

AllEmpty(bs) == \A k \in 1..Len(bs) : cleaned_votes(bs[k]) = <<>>

\* C4: on ballots whose cleaned sequences are all empty (or no ballots at
\* all) run_irv, run_borda, run_fptp and run_approval end normally with no
\* winner, and run_condorcet and run_schulze return no winner
C4_EmptyBallotsNoWinner ==
    AllEmpty(ballots) =>
        /\ pc # "raised"
        /\ pc = "returned" => ret = None
        /\ last.fn \in {"run_borda", "run_fptp", "run_approval",
                        "run_condorcet", "run_schulze"}
              => (last.exc = "" /\ last.val = None)

\* the slots read before the first overvote marker
BeforeOver(b) == {k \in 1..Len(b) : \A j \in 1..k : b[j] # OVER}

\* of those, the ones holding a candidate not already at an earlier slot
KeptSlots(b) ==
    {k \in BeforeOver(b) : b[k] # None /\ \A j \in 1..(k - 1) : b[j] # b[k]}

\* C5: cleaned_votes returns the slots before the first overvote marker, in
\* rank order, empty slots skipped and each candidate kept at its earliest
\* rank only; so no marker, no empty entry, no duplicate; and cleaning the
\* ballot built from the result gives the result again
C5_CleanedVotes ==
    last.fn = "cleaned_votes" =>
        LET b == ballots[1]
            r == last.val
        IN  /\ Len(r) = Cardinality(KeptSlots(b))
            /\ \A k \in KeptSlots(b) :
                  r[Cardinality({j \in KeptSlots(b) : j <= k})] = b[k]
            /\ \A i \in 1..Len(r) : r[i] \in Cands
            /\ \A i, j \in 1..Len(r) : i # j => r[i] # r[j]
            /\ cleaned_votes(Pad(r)) = r

\* [A, OVER, C] gives [A]
C5_Witness ==
    /\ last.fn = "cleaned_votes"
    /\ ballots[1] = <<1, OVER, 3>>
    /\ last.val = <<1>>

Position(v, c) == CHOOSE i \in 1..Len(v) : v[i] = c

\* the ballots that rank a, and rank b later or not at all
Preferring(bs, a, b) ==
    {k \in 1..Len(bs) :
        LET v == cleaned_votes(bs[k]) IN
        /\ a \in Range(v)
        /\ (b \notin Range(v) \/ Position(v, a) < Position(v, b))}

\* C6: pairwise_preferences gives each ordered pair (A, B) of distinct
\* candidates of the cleaned sequences the number of ballots that rank A and
\* rank B later or not at all, and preference(A,B) + preference(B,A) is at
\* most the number of ballots
C6_PairwisePreferences ==
    last.fn = "pairwise_preferences" =>
        LET C == Contenders(CleanedAll(ballots)) IN
        /\ DOMAIN last.val = {p \in C \X C : p[1] # p[2]}
        /\ \A a, b \in C : a # b =>
              /\ last.val[<<a, b>>] = Cardinality(Preferring(ballots, a, b))
              /\ last.val[<<a, b>>] + last.val[<<b, a>>] <= Len(ballots)

\* a matrix with a ballot that ranks A and not B, counted for (A, B), and a
\* pair that some ballot leaves out altogether
C6_Witness ==
    /\ last.fn = "pairwise_preferences"
    /\ \E a, b \in Contenders(CleanedAll(ballots)) :
          /\ a # b
          /\ \E k \in 1..Len(ballots) :
                a \in Range(cleaned_votes(ballots[k])) /\ b \notin Range(cleaned_votes(ballots[k]))
          /\ last.val[<<a, b>>] >= 1
    /\ \E c, d \in Contenders(CleanedAll(ballots)) :
          c # d /\ last.val[<<c, d>>] + last.val[<<d, c>>] < Len(ballots)

Beats(bs, c, d) ==
    Cardinality(Preferring(bs, c, d)) > Cardinality(Preferring(bs, d, c))

BeatsAll(bs) ==
    LET C == Contenders(CleanedAll(bs))
    IN  {c \in C : \A d \in C \ {c} : Beats(bs, c, d)}

\* C7: with n >= 1 candidates in the cleaned sequences run_condorcet returns
\* c exactly when c beats each of the n-1 others, none exactly when no
\* candidate does, and at most one candidate does
C7_CondorcetWinner ==
    last.fn = "run_condorcet" =>
        /\ Cardinality(BeatsAll(ballots)) <= 1
        /\ \A c \in BeatsAll(ballots) : last.val = c
        /\ BeatsAll(ballots) = {} => last.val = None

DirectStrength(bs, a, b) ==
    IF Beats(bs, a, b) THEN Cardinality(Preferring(bs, a, b)) ELSE 0

\* C8: the matrix _strongest_paths returns is closed under max-min
\* composition, path(A,C) >= min(path(A,B), path(B,C)) for pairwise distinct
\* A, B, C, and no entry is below the strength it was initialised to
C8_PathsClosed ==
    last.fn = "_strongest_paths" =>
        LET C == Contenders(CleanedAll(ballots))
            path == last.val
        IN  /\ \A a, b \in C : a # b => path[<<a, b>>] >= DirectStrength(ballots, a, b)
            /\ \A a, b, c \in C :
                  (a # b /\ b # c /\ a # c) =>
                     \/ path[<<a, c>>] >= path[<<a, b>>]
                     \/ path[<<a, c>>] >= path[<<b, c>>]

\* a matrix in which the passes raised an entry above its direct strength
C8_Witness ==
    /\ last.fn = "_strongest_paths"
    /\ \E a, c \in Contenders(CleanedAll(ballots)) :
          a # c /\ last.val[<<a, c>>] > DirectStrength(ballots, a, c)

\* s with every x taken out
Without(s, x) == SelectSeq(s, LAMBDA y : y # x)

\* C9: a round of a verbose run_irv that ends without a winner eliminates a
\* candidate whose first-choice count is the fewest among all candidates
\* still on some ballot's remaining sequence (zero counts included), who is
\* not the round's leader unless all are tied; afterwards that candidate is on
\* no remaining sequence and the others keep their order
C9_EliminatesFewest ==
    [][(pc = "running" /\ verbose /\ pc' = "running") =>
         LET e == eliminated' IN
         /\ e \in Contenders(votes)
         /\ \A c \in Contenders(votes) : FirstCount(votes, e) <= FirstCount(votes, c)
         /\ (\E c \in Contenders(votes) : FirstCount(votes, c) # FirstCount(votes, e))
               => \E c \in Contenders(votes) : FirstCount(votes, c) > FirstCount(votes, e)
         /\ \A k \in 1..Len(votes) : votes'[k] = Without(votes[k], e)]_vars

====
